---- MODULE Spec2Model ----
(***************************************************************************)
(* pycoerce: the PostgreSQL type encoder (pycoerce/postgresql.py) and the  *)
(* pyarrow type and table encoders (pycoerce/pyarrow.py).                  *)
(*                                                                         *)
(* A Python object is a record [t, items, keys]: t is the name of its      *)
(* exact runtime type (type(obj)), items its elements in iteration order   *)
(* (a dict's values), keys a dict's keys in insertion order.  A str key is *)
(* the sequence of its code points.  A hook (resolver) is a record         *)
(* [kind, tok]: a str literal, a callable of no argument, a callable of    *)
(* one argument, or an object that is neither.  What an encoder returns or *)
(* raises is a record [tag, name, arg, keys, elems, cols].                 *)
(***************************************************************************)
EXTENDS Naturals, Sequences, FiniteSets, TLC

VARIABLES
    pgCaller,   \* the hooks dict the caller gave PostgresTypeEncoder(hooks)
    pgHooks,    \* PostgresTypeEncoder.hooks
    paCaller,   \* the hooks dict the caller gave the pyarrow encoders
    paHooks,    \* PyarrowTypeEncoder.hooks (PyarrowTableEncoder.type_encoder)
    arg,        \* the caller's object, passed to encode
    op,         \* the last operation
    result      \* what the last encode returned or raised

vars == <<pgCaller, pgHooks, paCaller, paHooks, arg, op, result>>

----------------------------------------------------------------------------
(* Bounds of the model *)

\* nodes (objects) of an input value, containers and leaves counted alike
MaxSize == 4
\* rows of a table input
MaxRows == 2

----------------------------------------------------------------------------
(* Python objects *)

Obj(t, keys, items) == [t |-> t, keys |-> keys, items |-> items]
Leaf(t) == Obj(t, <<>>, <<>>)
PyList(items) == Obj("list", <<>>, items)
PyDict(keys, items) == Obj("dict", keys, items)

\* 1, True, 1j: each is truthy
Leaves == {Leaf("int"), Leaf("bool"), Leaf("complex")}

\* "b" and "ab": the longer key sorts first
Keys == {<<2>>, <<1, 2>>}

\* the key sequences of n distinct keys, in every insertion order
KeySeqs(n) == {ks \in [1..n -> Keys] : \A i, j \in 1..n : i # j => ks[i] # ks[j]}

RECURSIVE ValuesOfSize(_), Forests(_)
\* the sequences of values with n nodes in all
Forests(n) ==
    IF n = 0 THEN {<<>>}
    ELSE UNION {{<<v>> \o f : v \in ValuesOfSize(k), f \in Forests(n - k)} : k \in 1..n}

ValuesOfSize(n) ==
    (IF n = 1 THEN Leaves ELSE {})
    \cup {PyList(f) : f \in Forests(n - 1)}
    \cup UNION {{PyDict(ks, f) : ks \in KeySeqs(Len(f))} : f \in Forests(n - 1)}

\* a dict holding a list that holds a dict of two leaves, the keys in either
\* insertion order
NestedInList ==
    {PyDict(<<k>>, <<PyList(<<PyDict(ks, f)>>)>>) :
        k \in Keys, ks \in KeySeqs(Cardinality(Keys)), f \in [1..Cardinality(Keys) -> Leaves]}

Inputs == UNION {ValuesOfSize(n) : n \in 1..MaxSize} \cup NestedInList

\* the values of a row: 1 and 1j
RowLeaves == {Leaf("int"), Leaf("complex")}

\* a row: a dict of leaves
RowDicts == UNION {{PyDict(ks, f) : ks \in KeySeqs(n), f \in [1..n -> RowLeaves]} : n \in 0..Cardinality(Keys)}

TableInputs == UNION {{PyList(rs) : rs \in [1..n -> RowDicts]} : n \in 0..MaxRows}

----------------------------------------------------------------------------
(* Hooks and results *)

Lit(tok) == [kind |-> "str", tok |-> tok]
Fn0(tok) == [kind |-> "fn0", tok |-> tok]
Fn1(tok) == [kind |-> "fn1", tok |-> tok]
NotAHook(tok) == [kind |-> "obj", tok |-> tok]

NoHooks == [t \in {} |-> Lit("")]

Res(tag, name, a, keys, elems, cols) ==
    [tag |-> tag, name |-> name, arg |-> a, keys |-> keys, elems |-> elems, cols |-> cols]
\* a target type token; a is the argument the hook was called with, if any
Tok(name, a) == Res("tok", name, a, <<>>, <<>>, <<>>)
\* a raised exception: name is its kind, a the type it names
Err(name, a) == Res("err", name, a, <<>>, <<>>, <<>>)
SqlSeq(elems) == Res("seq", "", "", <<>>, elems, <<>>)
SqlMap(keys, elems) == Res("map", "", "", keys, elems, <<>>)
PaList(elem) == Res("list", "", "", <<>>, <<elem>>, <<>>)
PaStruct(keys, elems) == Res("struct", "", "", keys, elems, <<>>)
PaTable(keys, elems, cols) == Res("table", "", "", keys, elems, cols)
NoResult == Res("none", "", "", <<>>, <<>>, <<>>)

IsErr(r) == r.tag = "err"

\* the first exception of a sequence of results, evaluated left to right
FirstErr(rs) ==
    LET bad == {i \in 1..Len(rs) : IsErr(rs[i])}
    IN  rs[CHOOSE i \in bad : \A j \in bad : i <= j]

AnyErr(rs) == \E i \in 1..Len(rs) : IsErr(rs[i])

\* Python's call resolver(*args)
Call(resolver, args) ==
    IF resolver.kind = "fn0"
    THEN IF Len(args) = 0 THEN Tok(resolver.tok, "") ELSE Err("CallArity", "")
    ELSE IF resolver.kind = "fn1"
    THEN IF Len(args) = 1 THEN Tok(resolver.tok, args[1]) ELSE Err("CallArity", "")
    ELSE Err("NotCallable", "")

Callable(resolver) == resolver.kind \in {"fn0", "fn1"}

\* {**builtin, **hooks}
MergeHooks(builtin, hooks) ==
    [t \in DOMAIN builtin \cup DOMAIN hooks |->
        IF t \in DOMAIN hooks THEN hooks[t] ELSE builtin[t]]

----------------------------------------------------------------------------
(* pycoerce/postgresql.py *)

NESTED == {"range", "iter", "list", "dict", "tuple", "set", "frozenset"}

UNSUPPORTED == {"complex"}

\* the types whose instances are collections.abc.Iterable
IterableTypes == {"range", "list", "dict", "tuple", "set", "frozenset", "str", "bytes", "bytearray", "memoryview"}

PgBuiltinHooks ==
    [t \in {"int", "bool", "bytes", "bytearray", "memoryview", "float", "str"} |->
        CASE t = "int" -> Lit("integer")
          [] t = "bool" -> Lit("boolean")
          [] t = "float" -> Lit("real")
          [] t = "str" -> Lit("text")
          [] OTHER -> Lit("bytea")]

\* the hooks a caller gives PostgresTypeEncoder
PgHookChoices ==
    { NoHooks,
      ("int" :> Lit("bigint")) @@ ("complex" :> Fn1("point")) @@ ("dict" :> Fn1("json")),
      ("list" :> Lit("jsonb")) @@ ("complex" :> NotAHook("5")) @@ ("bool" :> Fn0("bit")) }

Pg_resolve_hook(hooks, pytype) ==
    IF pytype \notin DOMAIN hooks THEN Err("KeyError", pytype)
    ELSE LET resolver == hooks[pytype]
         IN  IF resolver.kind = "str" THEN Tok(resolver.tok, "")
             ELSE IF Callable(resolver) THEN Call(resolver, <<pytype>>)
             ELSE Err("HookNotStrOrCallable", pytype)

\* what the loop body of _validate_object_types raises for one type, if anything
PgTypeCheck(hooks, pytype) ==
    IF pytype \notin DOMAIN hooks THEN Err("NoSqlType", pytype)
    ELSE IF pytype \in NESTED THEN Err("Nested", pytype)
    ELSE IF pytype \in UNSUPPORTED THEN Err("NoDefault", pytype)
    ELSE NoResult

Types(items) == [i \in 1..Len(items) |-> items[i].t]

Pg_validate_object_types(hooks, items) ==
    LET checks == [i \in 1..Len(items) |-> PgTypeCheck(hooks, items[i].t)]
    IN  IF AnyErr(checks) THEN FirstErr(checks) ELSE NoResult

Pg_iter_to_sql_types(hooks, obj) ==
    LET v == Pg_validate_object_types(hooks, obj.items)
        types == Types(obj.items)
        sql == [i \in 1..Len(types) |-> Pg_resolve_hook(hooks, types[i])]
    IN  IF IsErr(v) THEN v
        ELSE IF AnyErr(sql) THEN FirstErr(sql)
        ELSE SqlSeq(sql)

\* a change to _dict_to_sql_columns: the types are paired with the keys in
\* reverse, zip(reversed(obj.keys()), types)
Pg_dict_to_sql_columns_reversed_keys(hooks, obj) ==
    LET v == Pg_validate_object_types(hooks, obj.items)
        types == Types(obj.items)
        n == Len(types)
        sql == [i \in 1..n |-> Pg_resolve_hook(hooks, types[i])]
    IN  IF IsErr(v) THEN v
        ELSE IF AnyErr(sql) THEN FirstErr(sql)
        ELSE SqlMap([i \in 1..n |-> obj.keys[n + 1 - i]], sql)

Pg_dict_to_sql_columns(hooks, obj) ==
    LET v == Pg_validate_object_types(hooks, obj.items)
        types == Types(obj.items)
        sql == [i \in 1..Len(types) |-> Pg_resolve_hook(hooks, types[i])]
    IN  IF IsErr(v) THEN v
        ELSE IF AnyErr(sql) THEN FirstErr(sql)
        ELSE SqlMap(obj.keys, sql)

\* a change to encode: the dict and Iterable tests come before the hook test
Pg_encode_structure_first(hooks, obj) ==
    IF obj.t = "dict" THEN Pg_dict_to_sql_columns(hooks, obj)
    ELSE IF obj.t \in IterableTypes THEN Pg_iter_to_sql_types(hooks, obj)
    ELSE IF obj.t \in DOMAIN hooks THEN Pg_resolve_hook(hooks, obj.t)
    ELSE Err("CannotEncode", "")

Pg_encode(hooks, obj) ==
    IF obj.t \in DOMAIN hooks THEN Pg_resolve_hook(hooks, obj.t)
    ELSE IF obj.t = "dict" THEN Pg_dict_to_sql_columns(hooks, obj)
    ELSE IF obj.t \in IterableTypes THEN Pg_iter_to_sql_types(hooks, obj)
    ELSE Err("CannotEncode", "")

----------------------------------------------------------------------------
(* pycoerce/pyarrow.py *)

\* Python's order on str: by code point, a proper prefix first
RECURSIVE StrLess(_, _)
StrLess(a, b) ==
    IF a = <<>> THEN b # <<>>
    ELSE IF b = <<>> THEN FALSE
    ELSE IF a[1] # b[1] THEN a[1] < b[1]
    ELSE StrLess(Tail(a), Tail(b))

\* a change to order_by_key: dict(collections.OrderedDict(obj.items())), the
\* sort left out
order_by_key_unsorted(obj) == PyDict(obj.keys, obj.items)

\* dict(collections.OrderedDict(sorted(obj.items()))): a new dict; the keys of a
\* dict are distinct, so sorted() orders the (key, value) pairs by key alone
order_by_key(obj) ==
    LET n == Len(obj.keys)
        rank(i) == 1 + Cardinality({j \in 1..n : StrLess(obj.keys[j], obj.keys[i])})
        at(p) == CHOOSE i \in 1..n : rank(i) = p
    IN  PyDict([p \in 1..n |-> obj.keys[at(p)]], [p \in 1..n |-> obj.items[at(p)]])

PaBuiltinHooks ==
    [t \in {"int", "str", "bool", "bytes", "float"} |->
        CASE t = "int" -> Fn0("int64")
          [] t = "str" -> Fn0("string")
          [] t = "bool" -> Fn0("bool_")
          [] t = "bytes" -> Fn0("binary")
          [] OTHER -> Fn0("float64")]

\* the hooks a caller gives PyarrowTypeEncoder and PyarrowTableEncoder
PaHookChoices ==
    { NoHooks,
      ("int" :> Fn0("int32")) @@ ("complex" :> Fn0("c128")) @@ ("list" :> Fn0("large_list")),
      ("complex" :> Lit("c128")) @@ ("bool" :> Fn1("bit")) }

\* a change to the dict branch: a field whose type cannot be computed is left
\* out of the struct
PaStructOf_skip_failed(keys, types) ==
    LET ok == {i \in 1..Len(types) : ~IsErr(types[i])}
        at(p) == CHOOSE i \in ok : Cardinality({j \in ok : j < i}) = p - 1
    IN  PaStruct([p \in 1..Cardinality(ok) |-> keys[at(p)]],
                 [p \in 1..Cardinality(ok) |-> types[at(p)]])

\* pa.struct(fields) over the fields' types, the first exception raised while
\* they are computed otherwise
PaStructOf(keys, types) ==
    IF AnyErr(types) THEN FirstErr(types) ELSE PaStruct(keys, types)

\* pa.list_(value_type), the exception raised while value_type is computed otherwise
PaListOf(type) ==
    IF IsErr(type) THEN type ELSE PaList(type)

\* a change to the leaf branch: self.hooks[pytype](pytype)
PaHookCall_with_type(hooks, pytype) ==
    IF pytype \notin DOMAIN hooks THEN Err("KeyError", pytype)
    ELSE Call(hooks[pytype], <<pytype>>)

\* self.hooks[pytype]()
PaHookCall(hooks, pytype) ==
    IF pytype \notin DOMAIN hooks THEN Err("KeyError", pytype)
    ELSE Call(hooks[pytype], <<>>)

RECURSIVE Pa_pytype_to_pyarrow_type(_, _)
Pa_pytype_to_pyarrow_type(hooks, obj) ==
    IF obj.t = "list"
    THEN IF Len(obj.items) > 0
         THEN PaListOf(Pa_pytype_to_pyarrow_type(hooks, obj.items[1]))
         ELSE Err("EmptyList", "list")
    ELSE IF obj.t = "dict"
    THEN LET o == order_by_key(obj)
             types == [i \in 1..Len(o.items) |-> Pa_pytype_to_pyarrow_type(hooks, o.items[i])]
         IN  PaStructOf(o.keys, types)
    ELSE PaHookCall(hooks, obj.t)

Pa_encode(hooks, obj) == Pa_pytype_to_pyarrow_type(hooks, obj)

MinOf(S) == CHOOSE x \in S : \A y \in S : x <= y

\* zip(*values): one tuple per position, as many as the shortest row has
ZipRows(values) ==
    LET n == MinOf({Len(values[r]) : r \in 1..Len(values)})
    IN  [c \in 1..n |-> [r \in 1..Len(values) |-> values[r][c]]]

\* a change to _list_of_dicts_to_pyarrow_table: the values are taken from the
\* rows as given, not from the rows ordered by key
Table_values_of_unordered_rows(hooks, objects) ==
    IF Len(objects.items) = 0 /\ objects.t \in {"list", "dict"}
    THEN PaTable(<<>>, <<>>, <<>>)
    ELSE IF objects.t \notin IterableTypes THEN Err("NotIterable", objects.t)
    ELSE IF objects.t = "dict" THEN Err("AttributeError", "str")
    ELSE IF \E i \in 1..Len(objects.items) : objects.items[i].t # "dict"
    THEN LET i == MinOf({j \in 1..Len(objects.items) : objects.items[j].t # "dict"})
         IN  Err("AttributeError", objects.items[i].t)
    ELSE LET objs == [i \in 1..Len(objects.items) |-> order_by_key(objects.items[i])]
             columns == objs[1].keys
             values == [i \in 1..Len(objs) |-> objects.items[i].items]
             rows == ZipRows(values)
             fields == [i \in 1..Len(columns) |-> Pa_encode(hooks, objs[1].items[i])]
         IN  IF AnyErr(fields) THEN FirstErr(fields)
             ELSE PaTable(columns, fields, rows)

\* What the table is built from: the column names and the column arrays handed to
\* pa.RecordBatch.from_arrays, and the field types of the schema.
Table_list_of_dicts_to_pyarrow_table(hooks, objects) ==
    IF Len(objects.items) = 0 /\ objects.t \in {"list", "dict"}
    THEN PaTable(<<>>, <<>>, <<>>)
    ELSE IF objects.t \notin IterableTypes THEN Err("NotIterable", objects.t)
    ELSE IF objects.t = "dict" THEN Err("AttributeError", "str")
    ELSE IF \E i \in 1..Len(objects.items) : objects.items[i].t # "dict"
    THEN LET i == MinOf({j \in 1..Len(objects.items) : objects.items[j].t # "dict"})
         IN  Err("AttributeError", objects.items[i].t)
    ELSE LET objs == [i \in 1..Len(objects.items) |-> order_by_key(objects.items[i])]
             columns == objs[1].keys
             values == [i \in 1..Len(objs) |-> objs[i].items]
             rows == ZipRows(values)
             fields == [i \in 1..Len(columns) |-> Pa_encode(hooks, values[1][i])]
         IN  IF AnyErr(fields) THEN FirstErr(fields)
             ELSE PaTable(columns, fields, rows)

----------------------------------------------------------------------------
(* The state machine *)

RECURSIVE Size(_), SumSizes(_, _)
SumSizes(items, n) == IF n = 0 THEN 0 ELSE Size(items[n]) + SumSizes(items, n - 1)
Size(obj) == 1 + SumSizes(obj.items, Len(obj.items))

InitEncoders ==
    /\ pgCaller = NoHooks
    /\ pgHooks = MergeHooks(PgBuiltinHooks, NoHooks)
    /\ paCaller = NoHooks
    /\ paHooks = MergeHooks(PaBuiltinHooks, NoHooks)
    /\ op = "idle"
    /\ result = NoResult

Init == InitEncoders /\ arg \in Inputs \cup TableInputs
InitValue == InitEncoders /\ arg \in Inputs
InitTable == InitEncoders /\ arg \in TableInputs

\* the caller builds the next object it will pass from the one it has
NewList ==
    /\ Size(arg) < MaxSize
    /\ arg' = PyList(<<arg>>)
    /\ op' = "idle"
    /\ result' = NoResult
    /\ UNCHANGED <<pgCaller, pgHooks, paCaller, paHooks>>

NewDict(k) ==
    /\ Size(arg) < MaxSize
    /\ arg' = PyDict(<<k>>, <<arg>>)
    /\ op' = "idle"
    /\ result' = NoResult
    /\ UNCHANGED <<pgCaller, pgHooks, paCaller, paHooks>>

GetItem(i) ==
    /\ i \in 1..Len(arg.items)
    /\ arg' = arg.items[i]
    /\ op' = "idle"
    /\ result' = NoResult
    /\ UNCHANGED <<pgCaller, pgHooks, paCaller, paHooks>>

\* PostgresTypeEncoder(hooks)
PostgresTypeEncoderInit(hooks) ==
    /\ pgCaller' = hooks
    /\ pgHooks' = MergeHooks(PgBuiltinHooks, hooks)
    /\ op' = "idle"
    /\ result' = NoResult
    /\ UNCHANGED <<paCaller, paHooks, arg>>

\* PostgresTypeEncoder.encode(arg)
PostgresTypeEncoderEncode ==
    /\ result' = Pg_encode(pgHooks, arg)
    /\ op' = "pg"
    /\ UNCHANGED <<pgCaller, pgHooks, paCaller, paHooks, arg>>

\* PyarrowTypeEncoder(hooks), also as PyarrowTableEncoder(hooks).type_encoder
PyarrowTypeEncoderInit(hooks) ==
    /\ paCaller' = hooks
    /\ paHooks' = MergeHooks(PaBuiltinHooks, hooks)
    /\ op' = "idle"
    /\ result' = NoResult
    /\ UNCHANGED <<pgCaller, pgHooks, arg>>

\* a change to _pytype_to_pyarrow_type: the caller's dict is put in key order
\* in place
PyarrowTypeEncoderEncode_sorting_in_place ==
    /\ result' = Pa_encode(paHooks, arg)
    /\ arg' = (IF arg.t = "dict" THEN order_by_key(arg) ELSE arg)
    /\ op' = "pa"
    /\ UNCHANGED <<pgCaller, pgHooks, paCaller, paHooks>>

\* PyarrowTypeEncoder.encode(arg)
PyarrowTypeEncoderEncode ==
    /\ result' = Pa_encode(paHooks, arg)
    /\ op' = "pa"
    /\ UNCHANGED <<pgCaller, pgHooks, paCaller, paHooks, arg>>

\* PyarrowTableEncoder.encode(arg)
PyarrowTableEncoderEncode ==
    /\ result' = Table_list_of_dicts_to_pyarrow_table(paHooks, arg)
    /\ op' = "table"
    /\ UNCHANGED <<pgCaller, pgHooks, paCaller, paHooks, arg>>

Build ==
    \/ NewList
    \/ \E k \in Keys : NewDict(k)
    \/ \E i \in 1..MaxSize : GetItem(i)

NextPg ==
    \/ Build
    \/ \E h \in PgHookChoices : PostgresTypeEncoderInit(h)
    \/ PostgresTypeEncoderEncode

NextPa ==
    \/ Build
    \/ \E h \in PaHookChoices : PyarrowTypeEncoderInit(h)
    \/ PyarrowTypeEncoderEncode

NextTable ==
    \/ Build
    \/ \E h \in PaHookChoices : PyarrowTypeEncoderInit(h)
    \/ PyarrowTableEncoderEncode

Next ==
    \/ Build
    \/ \E h \in PgHookChoices : PostgresTypeEncoderInit(h)
    \/ \E h \in PaHookChoices : PyarrowTypeEncoderInit(h)
    \/ PostgresTypeEncoderEncode
    \/ PyarrowTypeEncoderEncode
    \/ PyarrowTableEncoderEncode

\* one PostgresTypeEncoder at a time
SpecPg == InitValue /\ [][NextPg]_vars
\* one PyarrowTypeEncoder at a time
SpecPa == InitValue /\ [][NextPa]_vars
\* one PyarrowTableEncoder at a time
SpecTable == InitTable /\ [][NextTable]_vars
\* all three encoders
Spec == Init /\ [][Next]_vars

----------------------------------------------------------------------------
(* What the documentation promises of a resolver, stated apart from the code *)

ContainerTypes == {"list", "dict"}

\* the error kinds the specification calls UnsupportedTypeError
UnsupportedTypeErrors == {"NoSqlType", "NoDefault", "KeyError"}

\* a literal token is returned unchanged, a callable is invoked with the type
DocumentedResolution(resolver, pytype) ==
    IF resolver.kind = "str" THEN Tok(resolver.tok, "")
    ELSE IF resolver.kind = "fn1" THEN Tok(resolver.tok, pytype)
    ELSE IF resolver.kind = "fn0" THEN Err("CallArity", "")
    ELSE Err("HookNotStrOrCallable", pytype)

ElementTypes == {arg.items[i].t : i \in 1..Len(arg.items)}

PgStructural == op = "pg" /\ arg.t \in ContainerTypes /\ arg.t \notin DOMAIN pgHooks

----------------------------------------------------------------------------
(* Claims about PostgresTypeEncoder, under SpecPg *)

\* C1: when a mapping or sequence is encoded and the type of every element has
\* a hook, no element is rejected as nested or unsupported, whatever NESTED and
\* UNSUPPORTED say of its type, and each element's descriptor is what its hook
\* resolves to.
C1_HookedElementsNotRejected ==
    (PgStructural /\ ElementTypes \subseteq DOMAIN pgHooks) =>
        /\ ~(IsErr(result) /\ result.name \in {"Nested", "NoDefault", "NoSqlType"})
        /\ ~IsErr(result) =>
              \A i \in 1..Len(arg.items) :
                  result.elems[i] = DocumentedResolution(pgHooks[arg.items[i].t], arg.items[i].t)

\* C2: when the exact type of the value passed to encode has a hook, the result
\* is the resolution of that one hook, a function of the hook and the type
\* alone: the contents of the value neither change it nor cause a rejection.
C2_TopLevelHookShortCircuits ==
    (op = "pg" /\ arg.t \in DOMAIN pgHooks) =>
        result = DocumentedResolution(pgHooks[arg.t], arg.t)

\* a hooked dict or list holding an element of a type with no hook was encoded
\* to its hook's token
C2_Witness ==
    /\ op = "pg"
    /\ arg.t \in ContainerTypes
    /\ arg.t \in DOMAIN pgHooks
    /\ \E t \in ElementTypes : t \notin DOMAIN pgHooks
    /\ result.tag = "tok"

\* C5: a dict with no hook for dict, one of whose values has a nested type with
\* no hook while its other values are of hooked scalar types, is rejected with
\* the 'type is nested' error.
C5_NestedValueRejectedAsNested ==
    ( /\ op = "pg" /\ arg.t = "dict" /\ "dict" \notin DOMAIN pgHooks
      /\ \E t \in ElementTypes : t \in NESTED /\ t \notin DOMAIN pgHooks
      /\ \A t \in ElementTypes :
            \/ t \in NESTED /\ t \notin DOMAIN pgHooks
            \/ t \in DOMAIN pgHooks /\ t \notin NESTED \cup UNSUPPORTED )
    => (IsErr(result) /\ result.name = "Nested")

\* C6: a complex scalar passed to encode with no hook for complex is rejected
\* with the error an element type without a hook gets, not the final
\* 'cannot encode' error.
C6_ComplexScalarUnsupported ==
    (op = "pg" /\ arg.t = "complex" /\ "complex" \notin DOMAIN pgHooks) =>
        (IsErr(result) /\ result.name \in UnsupportedTypeErrors)

\* the elements of arg are all of hooked types that are neither nested nor
\* unsupported
PgElementsValid ==
    \A t \in ElementTypes : t \in DOMAIN pgHooks /\ t \notin NESTED \cup UNSUPPORTED

PgElementsResolve ==
    \A t \in ElementTypes : ~IsErr(DocumentedResolution(pgHooks[t], t))

\* C8: a dict with no hook for dict whose values are all of valid types encodes
\* to a mapping with the same keys in the same insertion order, each mapped to
\* the resolution of its value's exact type (bool to 'boolean' under the
\* built-in hooks); any other iterable encodes to a sequence of the same length,
\* the i-th descriptor resolving the i-th element's type; empty gives empty.
C8_StructuralEncodeShape ==
    (PgStructural /\ PgElementsValid) =>
        /\ PgElementsResolve =>
              /\ result.tag = (IF arg.t = "dict" THEN "map" ELSE "seq")
              /\ result.keys = arg.keys
              /\ Len(result.elems) = Len(arg.items)
              /\ \A i \in 1..Len(arg.items) :
                    /\ result.elems[i] = DocumentedResolution(pgHooks[arg.items[i].t], arg.items[i].t)
                    /\ (arg.items[i].t = "bool" /\ "bool" \notin DOMAIN pgCaller)
                          => result.elems[i] = Tok("boolean", "")
        /\ ~PgElementsResolve => IsErr(result)

\* a dict of two values, an int and a bool, inserted with the keys out of order
C8_Witness ==
    /\ PgStructural
    /\ arg.t = "dict"
    /\ arg.keys = << <<2>>, <<1, 2>> >>
    /\ ElementTypes = {"int", "bool"}
    /\ result.tag = "map"

----------------------------------------------------------------------------
(* Claims about PyarrowTypeEncoder, under SpecPa *)

IndexPermutations(n) == {p \in [1..n -> 1..n] : \A i, j \in 1..n : i # j => p[i] # p[j]}

\* the values equal to obj but for the insertion order of the keys of the
\* dicts in it, at every level
RECURSIVE Reorderings(_)
Reorderings(obj) ==
    LET n == Len(obj.items)
        each == [i \in 1..n |-> Reorderings(obj.items[i])]
        items == {cs \in [1..n -> UNION {each[i] : i \in 1..n}] : \A i \in 1..n : cs[i] \in each[i]}
    IN  IF n = 0 THEN {obj}
        ELSE IF obj.t = "dict"
        THEN {PyDict([i \in 1..n |-> obj.keys[p[i]]], [i \in 1..n |-> cs[p[i]]]) :
                 cs \in items, p \in IndexPermutations(n)}
        ELSE {Obj(obj.t, obj.keys, cs) : cs \in items}

\* the fields of every struct of a type are in ascending order of their names
RECURSIVE StructsAscending(_)
StructsAscending(r) ==
    /\ r.tag = "struct" => \A i \in 1..(Len(r.keys) - 1) : StrLess(r.keys[i], r.keys[i + 1])
    /\ \A i \in 1..Len(r.elems) : StructsAscending(r.elems[i])

\* C3: values that hold the same key/value pairs, inserted in different orders
\* at the top or in any dict nested in them (in a dict or in a list), encode to
\* the same type, and the fields of every struct of the type are in ascending
\* key order.
C3_KeyOrderInvariance ==
    op = "pa" =>
        /\ \A m2 \in Reorderings(arg) : Pa_encode(paHooks, m2) = result
        /\ StructsAscending(result)

\* a dict holding a list whose first item is a dict of two keys inserted in
\* descending order was encoded to a struct type
C3_Witness ==
    /\ op = "pa"
    /\ arg.t = "dict"
    /\ \E i \in 1..Len(arg.items) :
          /\ arg.items[i].t = "list"
          /\ Len(arg.items[i].items) > 0
          /\ arg.items[i].items[1].t = "dict"
          /\ arg.items[i].items[1].keys = << <<2>>, <<1, 2>> >>
    /\ result.tag = "struct"

LeafTypes == {l.t : l \in Leaves}

NoArgumentResolution(resolver) ==
    IF resolver.kind = "fn0" THEN Tok(resolver.tok, "")
    ELSE IF resolver.kind = "fn1" THEN Err("CallArity", "")
    ELSE Err("NotCallable", "")

----------------------------------------------------------------------------
(* Claims about PyarrowTableEncoder, under SpecTable *)

KeySet(d) == {d.keys[i] : i \in 1..Len(d.keys)}
Lookup(d, k) == d.items[CHOOSE i \in 1..Len(d.keys) : d.keys[i] = k]

IsRows(v) == v.t = "list" /\ \A i \in 1..Len(v.items) : v.items[i].t = "dict"

\* C9: rows with one key set, whatever the insertion order of each, give a table
\* with one column per key in ascending key order; the column of key k holds
\* rows[0][k], rows[1][k], ... and its declared type is the encoding of
\* rows[0][k].  No rows give a table with an empty schema and no columns.
C9_ColumnAlignment ==
    (op = "table" /\ IsRows(arg)) =>
        LET rows == arg.items
            first == rows[1]
        IN  /\ Len(rows) = 0 => result = PaTable(<<>>, <<>>, <<>>)
            /\ (Len(rows) > 0 /\ \A r \in 1..Len(rows) : KeySet(rows[r]) = KeySet(first)) =>
                  IF \E k \in KeySet(first) : IsErr(Pa_encode(paHooks, Lookup(first, k)))
                  THEN IsErr(result)
                  ELSE /\ result.tag = "table"
                       /\ Len(result.keys) = Cardinality(KeySet(first))
                       /\ {result.keys[c] : c \in 1..Len(result.keys)} = KeySet(first)
                       /\ \A c \in 1..(Len(result.keys) - 1) : StrLess(result.keys[c], result.keys[c + 1])
                       /\ Len(result.cols) = Len(result.keys)
                       /\ Len(result.elems) = Len(result.keys)
                       /\ \A c \in 1..Len(result.keys) :
                             /\ result.cols[c] = [r \in 1..Len(rows) |-> Lookup(rows[r], result.keys[c])]
                             /\ result.elems[c] = Pa_encode(paHooks, Lookup(first, result.keys[c]))

\* two rows of the same two keys, inserted in opposite orders and holding
\* different values, were assembled into a table
C9_Witness ==
    /\ op = "table"
    /\ IsRows(arg)
    /\ Len(arg.items) = 2
    /\ arg.items[1].keys = << <<2>>, <<1, 2>> >>
    /\ arg.items[2].keys = << <<1, 2>>, <<2>> >>
    /\ arg.items[1].items # arg.items[2].items
    /\ arg.items[1].items[1] # arg.items[1].items[2]
    /\ result.tag = "table"

----------------------------------------------------------------------------
(* Claims about all three encoders, under Spec *)

\* the values that are not containers, at every position and depth of obj
RECURSIVE LeavesOf(_)
LeavesOf(obj) ==
    IF obj.t \in ContainerTypes
    THEN UNION {LeavesOf(obj.items[i]) : i \in 1..Len(obj.items)}
    ELSE {obj}

\* the empty lists at every position and depth of obj
RECURSIVE EmptyListsOf(_)
EmptyListsOf(obj) ==
    (IF obj.t = "list" /\ Len(obj.items) = 0 THEN {obj} ELSE {})
    \cup UNION {EmptyListsOf(obj.items[i]) : i \in 1..Len(obj.items)}

\* C4 as claimed: a leaf of a type with no hook at any position and depth of the
\* input (any item of a list, any value of a mapping, any row of a table), or
\* an empty list in the columnar variant, fails the whole call.
C4_AnyBadLeafFails ==
    /\ (op = "pg" /\ \E l \in LeavesOf(arg) : l.t \notin DOMAIN pgHooks) => IsErr(result)
    /\ (op = "pa" /\ \E l \in LeavesOf(arg) : l.t \notin DOMAIN paHooks) => IsErr(result)
    /\ (op = "pa" /\ EmptyListsOf(arg) # {}) => IsErr(result)
    /\ (op = "table" /\ IsRows(arg) /\ \E l \in LeavesOf(arg) : l.t \notin DOMAIN paHooks)
          => IsErr(result)

\* the leaves and empty lists of obj that the columnar type encoder looks at:
\* every value of a dict, and the first item of a list only
RECURSIVE PaInspected(_)
PaInspected(obj) ==
    IF obj.t = "list"
    THEN IF Len(obj.items) = 0 THEN {obj} ELSE PaInspected(obj.items[1])
    ELSE IF obj.t = "dict"
    THEN UNION {PaInspected(obj.items[i]) : i \in 1..Len(obj.items)}
    ELSE {obj}

PaBad(v) == v.t = "list" \/ v.t \notin DOMAIN paHooks

\* C4, amended: the call fails as a whole, with no partial result, when a value
\* the encoder inspects is a leaf of a type with no hook or, in the columnar
\* variant, an empty list.  The SQL encoder inspects the value passed and, when
\* its type has no hook, each of its elements; the columnar type encoder every
\* value of a dict and the first item of a list, at every depth; the table
\* encoder the values of the first row, each as the type encoder does.
C4_InspectedBadLeafFails ==
    /\ (op = "pg" /\ arg.t \notin DOMAIN pgHooks /\ arg.t \notin ContainerTypes) => IsErr(result)
    /\ (PgStructural /\ \E t \in ElementTypes : t \notin DOMAIN pgHooks) => IsErr(result)
    /\ (op = "pa" /\ \E v \in PaInspected(arg) : PaBad(v)) => IsErr(result)
    /\ (op = "table" /\ IsRows(arg) /\ Len(arg.items) > 0
          /\ \E v \in PaInspected(arg.items[1]) : PaBad(v)) => IsErr(result)

\* a dict whose second value, in sorted key order too, holds an empty list or
\* a leaf of a type with no hook behind a value that encodes, was rejected
C4_Witness ==
    /\ op = "pa"
    /\ arg.t = "dict"
    /\ arg.keys = << <<1, 2>>, <<2>> >>
    /\ ~IsErr(Pa_encode(paHooks, arg.items[1]))
    /\ \E v \in PaInspected(arg.items[2]) : PaBad(v)
    /\ IsErr(result)

EncodeOps == {"pg", "pa", "table"}

\* what an encoder newly built from the caller's hooks returns for a value
FreshResult(o, v) ==
    IF o = "pg" THEN Pg_encode(MergeHooks(PgBuiltinHooks, pgCaller), v)
    ELSE IF o = "pa" THEN Pa_encode(MergeHooks(PaBuiltinHooks, paCaller), v)
    ELSE Table_list_of_dicts_to_pyarrow_table(MergeHooks(PaBuiltinHooks, paCaller), v)

====
